---------------------------- MODULE Spec2Model ----------------------------
(***************************************************************************)
(* Micronaut project build support (micronaut/src/projectBuild.ts).        *)
(*                                                                         *)
(* Strings are sequences of one-character strings, so that trimming,       *)
(* splitting, the regular expressions and the template literals of the     *)
(* source are computed on characters.  `undefined` and the empty string    *)
(* are both written << >>: the source only ever tests such values for      *)
(* truthiness (`if (goal)`, `if (exec)`, `if (command)`, `if (javaHome)`). *)
(***************************************************************************)
EXTENDS Naturals, Sequences, FiniteSets

(***************************************************************************)
(* Bounds of the model.                                                    *)
(***************************************************************************)
\* Number of lines of a Gradle task report (catalog specification).
MaxLines == 5
\* Length of the directory part of a wrapper path (command specification).
MaxDirLen == 3
\* Number of build() invocations that may overlap (build specification).
NumBuilds == 2

(***************************************************************************)
(* String constants of the source.                                         *)
(***************************************************************************)
\* 'Micronaut'
MICRONAUT ==
    <<"M","i","c","r","o","n","a","u","t">>

\* 'native-image'
NATIVE_IMAGE ==
    <<"n","a","t","i","v","e","-","i","m","a","g","e">>

\* 'build'
G_build ==
    <<"b","u","i","l","d">>

\* 'nativeImage'
G_nativeImage ==
    <<"n","a","t","i","v","e","I","m","a","g","e">>

\* 'dockerBuild'
G_dockerBuild ==
    <<"d","o","c","k","e","r","B","u","i","l","d">>

\* 'dockerBuildNative'
G_dockerBuildNative ==
    <<"d","o","c","k","e","r","B","u","i","l","d","N","a","t","i","v","e">>

\* 'dockerPush'
G_dockerPush ==
    <<"d","o","c","k","e","r","P","u","s","h">>

\* 'dockerPushNative'
G_dockerPushNative ==
    <<"d","o","c","k","e","r","P","u","s","h","N","a","t","i","v","e">>

\* 'clean'
G_clean ==
    <<"c","l","e","a","n">>

\* 'compile'
G_compile ==
    <<"c","o","m","p","i","l","e">>

\* 'package'
G_package ==
    <<"p","a","c","k","a","g","e">>

\* 'compile'
M_compile ==
    <<"c","o","m","p","i","l","e">>

\* 'package -Dpackaging=native-image'
M_nativeImage ==
    <<"p","a","c","k","a","g","e"," ","-","D","p","a","c","k","a","g","i","n","g","=","n","a",
      "t","i","v","e","-","i","m","a","g","e">>

\* 'package -Dpackaging=docker'
M_dockerBuild ==
    <<"p","a","c","k","a","g","e"," ","-","D","p","a","c","k","a","g","i","n","g","=","d","o",
      "c","k","e","r">>

\* 'package -Dpackaging=docker-native'
M_dockerBuildNative ==
    <<"p","a","c","k","a","g","e"," ","-","D","p","a","c","k","a","g","i","n","g","=","d","o",
      "c","k","e","r","-","n","a","t","i","v","e">>

\* 'deploy -Dpackaging=docker'
M_dockerPush ==
    <<"d","e","p","l","o","y"," ","-","D","p","a","c","k","a","g","i","n","g","=","d","o","c",
      "k","e","r">>

\* 'deploy -Dpackaging=docker-native'
M_dockerPushNative ==
    <<"d","e","p","l","o","y"," ","-","D","p","a","c","k","a","g","i","n","g","=","d","o","c",
      "k","e","r","-","n","a","t","i","v","e">>

\* ' --no-daemon'
NO_DAEMON ==
    <<" ","-","-","n","o","-","d","a","e","m","o","n">>

\* 'Cleans the project'
D_clean ==
    <<"C","l","e","a","n","s"," ","t","h","e"," ","p","r","o","j","e","c","t">>

\* 'Compiles the source code of the project'
D_compile ==
    <<"C","o","m","p","i","l","e","s"," ","t","h","e"," ","s","o","u","r","c","e"," ","c","o",
      "d","e"," ","o","f"," ","t","h","e"," ","p","r","o","j","e","c","t">>

\* 'Packages the compiled code in its distributable format'
D_package ==
    <<"P","a","c","k","a","g","e","s"," ","t","h","e"," ","c","o","m","p","i","l","e","d"," ",
      "c","o","d","e"," ","i","n"," ","i","t","s"," ","d","i","s","t","r","i","b","u","t","a",
      "b","l","e"," ","f","o","r","m","a","t">>

\* 'Packages the compiled code as a GraalVM native image'
D_nativeImage ==
    <<"P","a","c","k","a","g","e","s"," ","t","h","e"," ","c","o","m","p","i","l","e","d"," ",
      "c","o","d","e"," ","a","s"," ","a"," ","G","r","a","a","l","V","M"," ","n","a","t","i",
      "v","e"," ","i","m","a","g","e">>

\* 'Builds a Docker image with the application artifacts'
D_dockerBuild ==
    <<"B","u","i","l","d","s"," ","a"," ","D","o","c","k","e","r"," ","i","m","a","g","e"," ",
      "w","i","t","h"," ","t","h","e"," ","a","p","p","l","i","c","a","t","i","o","n"," ","a",
      "r","t","i","f","a","c","t","s">>

\* 'Builds a Docker image with a GraalVM native image inside'
D_dockerBuildNative ==
    <<"B","u","i","l","d","s"," ","a"," ","D","o","c","k","e","r"," ","i","m","a","g","e"," ",
      "w","i","t","h"," ","a"," ","G","r","a","a","l","V","M"," ","n","a","t","i","v","e"," ",
      "i","m","a","g","e"," ","i","n","s","i","d","e">>

\* 'Pushes a Docker Image'
D_dockerPush ==
    <<"P","u","s","h","e","s"," ","a"," ","D","o","c","k","e","r"," ","I","m","a","g","e">>

\* 'Pushes a Native Docker Image using GraalVM'
D_dockerPushNative ==
    <<"P","u","s","h","e","s"," ","a"," ","N","a","t","i","v","e"," ","D","o","c","k","e","r",
      " ","I","m","a","g","e"," ","u","s","i","n","g"," ","G","r","a","a","l","V","M">>

\* 'Build tasks'
BUILD_TASKS ==
    <<"B","u","i","l","d"," ","t","a","s","k","s">>

\* 'Upload tasks'
UPLOAD_TASKS ==
    <<"U","p","l","o","a","d"," ","t","a","s","k","s">>

\* '---'
DIVIDER ==
    <<"-","-","-">>

\* 'No terminal command for '
NO_COMMAND ==
    <<"N","o"," ","t","e","r","m","i","n","a","l"," ","c","o","m","m","a","n","d"," ","f","o",
      "r"," ">>

\* 'gradlew'
F_gradlew ==
    <<"g","r","a","d","l","e","w">>

\* 'mvnw'
F_mvnw ==
    <<"m","v","n","w">>

\* 'Install '
INSTALL_PREFIX ==
    <<"I","n","s","t","a","l","l"," ">>

\* '/bin'
BIN ==
    <<"/","b","i","n">>

\* `Install ${NATIVE_IMAGE}`
INSTALL == INSTALL_PREFIX \o NATIVE_IMAGE

(***************************************************************************)
(* Inputs: report lines, wrapper paths, the Java home, the environment.    *)
(***************************************************************************)
\* '-----------'
L_divider ==
    <<"-","-","-","-","-","-","-","-","-","-","-">>

\* 'jar - Assembles a jar'
L_jar ==
    <<"j","a","r"," ","-"," ","A","s","s","e","m","b","l","e","s"," ","a"," ","j","a","r">>

\* 'jar - Makes it again'
L_jarAgain ==
    <<"j","a","r"," ","-"," ","M","a","k","e","s"," ","i","t"," ","a","g","a","i","n">>

\* '  docker-push - Pushes - fast  '
L_dockerPush ==
    <<" "," ","d","o","c","k","e","r","-","p","u","s","h"," ","-"," ","P","u","s","h","e","s",
      " ","-"," ","f","a","s","t"," "," ">>

\* 'TypeError'
TYPE_ERROR ==
    <<"T","y","p","e","E","r","r","o","r">>

\* '/my app/gradlew'
GRADLEW ==
    <<"/","m","y"," ","a","p","p","/","g","r","a","d","l","e","w">>

\* '/my app/mvnw'
MVNW ==
    <<"/","m","y"," ","a","p","p","/","m","v","n","w">>

\* '/opt/graalvm'
JAVA_HOME ==
    <<"/","o","p","t","/","g","r","a","a","l","v","m">>

\* '/usr/bin'
ENV_PATH ==
    <<"/","u","s","r","/","b","i","n">>

\* 'bash'
OTHER_NAME ==
    <<"b","a","s","h">>

\* 'assemble - Assembles the outputs'
R_build1 ==
    <<"a","s","s","e","m","b","l","e"," ","-"," ","A","s","s","e","m","b","l","e","s"," ","t",
      "h","e"," ","o","u","t","p","u","t","s">>

\* 'nativeImage - Builds a native image'
R_build2 ==
    <<"n","a","t","i","v","e","I","m","a","g","e"," ","-"," ","B","u","i","l","d","s"," ","a",
      " ","n","a","t","i","v","e"," ","i","m","a","g","e">>

\* 'dockerPush - Pushes a Docker image'
R_upload1 ==
    <<"d","o","c","k","e","r","P","u","s","h"," ","-"," ","P","u","s","h","e","s"," ","a"," ",
      "D","o","c","k","e","r"," ","i","m","a","g","e">>

(***************************************************************************)
(* JavaScript string primitives used by the source.                        *)
(***************************************************************************)
\* `undefined` (and the empty string): the falsy value.
Undefined == << >>

\* JavaScript truthiness of a string-or-undefined value.
Truthy(s) == s # << >>

\* The characters the regular-expression class \s and trim() treat as whitespace.
IsSpace(c) == c \in {" ", "\t", "\n", "\r"}

\* The characters the regular-expression `.` does not match.
IsLineTerminator(c) == c \in {"\n", "\r"}

\* First position >= i of s that holds no whitespace (Len(s) + 1 when none).
RECURSIVE SkipSpaces(_, _)
SkipSpaces(s, i) ==
    IF i <= Len(s) /\ IsSpace(s[i]) THEN SkipSpaces(s, i + 1) ELSE i

\* First position >= i of s that holds whitespace (Len(s) + 1 when none).
RECURSIVE SkipNonSpaces(_, _)
SkipNonSpaces(s, i) ==
    IF i <= Len(s) /\ ~IsSpace(s[i]) THEN SkipNonSpaces(s, i + 1) ELSE i

\* First position >= i of s that holds a line terminator (Len(s) + 1 when none).
RECURSIVE SkipToLineEnd(_, _)
SkipToLineEnd(s, i) ==
    IF i <= Len(s) /\ ~IsLineTerminator(s[i]) THEN SkipToLineEnd(s, i + 1) ELSE i

\* String.prototype.trim
RECURSIVE TrimEnd(_)
TrimEnd(s) ==
    IF s # << >> /\ IsSpace(s[Len(s)]) THEN TrimEnd(SubSeq(s, 1, Len(s) - 1)) ELSE s

Trim(s) == TrimEnd(SubSeq(s, SkipSpaces(s, 1), Len(s)))

\* String.prototype.split('\n')
RECURSIVE SplitLines(_)
SplitLines(s) ==
    IF \E i \in 1..Len(s) : s[i] = "\n"
    THEN LET i == CHOOSE k \in 1..Len(s) :
                      s[k] = "\n" /\ \A j \in 1..(k - 1) : s[j] # "\n"
         IN  <<SubSeq(s, 1, i - 1)>> \o SplitLines(SubSeq(s, i + 1, Len(s)))
    ELSE <<s>>

\* String.prototype.startsWith
StartsWith(s, prefix) ==
    Len(s) >= Len(prefix) /\ SubSeq(s, 1, Len(prefix)) = prefix

\* lines.map(line => line.trim())
TrimAll(lines) == [i \in 1..Len(lines) |-> Trim(lines[i])]

\* line.match(/(\S+)\s*-\s*(.*)/): the leftmost match, with the token and both
\* whitespace runs greedy, with backtracking.  The result is
\* <<match, group 1, group 2>>, or << >> for null.
\* With (\S+) ending at position j: the position of the hyphen that \s*-
\* matches next, or 0.  \s* cannot give a whitespace back to the hyphen.
HyphenAfter(s, j) ==
    LET k == SkipSpaces(s, j + 1)
    IN  IF k <= Len(s) /\ s[k] = "-" THEN k ELSE 0

\* The match that starts at position i, or << >>.
MatchAt(s, i) ==
    LET ends == {j \in i..(SkipNonSpaces(s, i) - 1) : HyphenAfter(s, j) # 0}
    IN  IF ends = {}
        THEN << >>
        ELSE LET j == CHOOSE e \in ends : \A o \in ends : o <= e
                 h == HyphenAfter(s, j)
                 d == SkipSpaces(s, h + 1)
                 z == SkipToLineEnd(s, d) - 1
             IN  <<SubSeq(s, i, z), SubSeq(s, i, j), SubSeq(s, d, z)>>

TaskMatch(s) ==
    LET starts == {i \in 1..Len(s) : MatchAt(s, i) # << >>}
    IN  IF starts = {}
        THEN << >>
        ELSE MatchAt(s, CHOOSE i \in starts : \A o \in starts : i <= o)

(***************************************************************************)
(* parseAvailableGradleGoals: the forEach over the trimmed lines, with the *)
(* closure's `process` flag and `goals` array as accumulators.             *)
(***************************************************************************)
\* A faulty ParseLine: a blank line does not end the section.
ParseLine_KeepsSection(line, category, process, acc) ==
    IF process
    THEN LET info == TaskMatch(line)
         IN  <<process,
               IF ~StartsWith(line, DIVIDER) /\ info # << >> /\ Len(info) >= 3
               THEN Append(acc, [label |-> info[2], detail |-> info[3]])
               ELSE acc>>
    ELSE <<IF line = category THEN TRUE ELSE process, acc>>

\* The body of the forEach callback, from <<process, goals>> to the next pair.
ParseLine(line, category, process, acc) ==
    IF process
    THEN LET info == TaskMatch(line)
         IN  <<IF Len(line) = 0 THEN FALSE ELSE process,
               IF ~StartsWith(line, DIVIDER) /\ info # << >> /\ Len(info) >= 3
               THEN Append(acc, [label |-> info[2], detail |-> info[3]])
               ELSE acc>>
    ELSE <<IF line = category THEN TRUE ELSE process, acc>>

RECURSIVE ParseLines(_, _, _, _)
ParseLines(lines, category, process, acc) ==
    IF lines = << >>
    THEN acc
    ELSE LET step == ParseLine(Head(lines), category, process, acc)
         IN  ParseLines(Tail(lines), category, step[1], step[2])

parseAvailableGradleGoals(out, category) ==
    ParseLines(TrimAll(SplitLines(out)), category, FALSE, << >>)

\* getAvailableGradleGoals, given the output `out` of the wrapper's `tasks` run.
getAvailableGradleGoals(out) ==
    [build  |-> parseAvailableGradleGoals(out, BUILD_TASKS),
     deploy |-> parseAvailableGradleGoals(out, UPLOAD_TASKS)]

\* A faulty getAvailableMavenGoals: 'dockerBuild' is listed twice.
getAvailableMavenGoals_Repeated ==
    [build  |-> <<[label |-> G_clean, detail |-> D_clean],
                  [label |-> G_compile, detail |-> D_compile],
                  [label |-> G_package, detail |-> D_package],
                  [label |-> G_nativeImage, detail |-> D_nativeImage],
                  [label |-> G_dockerBuild, detail |-> D_dockerBuild],
                  [label |-> G_dockerBuild, detail |-> D_dockerBuildNative]>>,
     deploy |-> <<[label |-> G_dockerPush, detail |-> D_dockerPush],
                  [label |-> G_dockerPushNative, detail |-> D_dockerPushNative]>>]

getAvailableMavenGoals ==
    [build  |-> <<[label |-> G_clean, detail |-> D_clean],
                  [label |-> G_compile, detail |-> D_compile],
                  [label |-> G_package, detail |-> D_package],
                  [label |-> G_nativeImage, detail |-> D_nativeImage],
                  [label |-> G_dockerBuild, detail |-> D_dockerBuild],
                  [label |-> G_dockerBuildNative, detail |-> D_dockerBuildNative]>>,
     deploy |-> <<[label |-> G_dockerPush, detail |-> D_dockerPush],
                  [label |-> G_dockerPushNative, detail |-> D_dockerPushNative]>>]

(***************************************************************************)
(* Command synthesis.                                                      *)
(***************************************************************************)
\* wrapper.fsPath.replace(/(\s+)/g, '\\$1'): a backslash before each maximal
\* run of whitespace.
RECURSIVE EscapeWhitespace(_)
EscapeWhitespace(s) ==
    IF s = << >>
    THEN << >>
    ELSE IF IsSpace(Head(s))
         THEN LET k == SkipSpaces(s, 1)
              IN  <<"\\">> \o SubSeq(s, 1, k - 1)
                           \o EscapeWhitespace(SubSeq(s, k, Len(s)))
         ELSE <<Head(s)>> \o EscapeWhitespace(Tail(s))

terminalGradleCommandFor(wrapper, goal) ==
    LET exec == EscapeWhitespace(wrapper)
    IN  IF Truthy(exec) THEN exec \o <<" ">> \o goal \o NO_DAEMON ELSE Undefined

\* A faulty switch: 'dockerPush' packages instead of deploying.
MavenCommand_PushPackages(goal) ==
    CASE goal = G_build             -> M_compile
      [] goal = G_nativeImage       -> M_nativeImage
      [] goal = G_dockerBuild       -> M_dockerBuild
      [] goal = G_dockerBuildNative -> M_dockerBuildNative
      [] goal = G_dockerPush        -> M_dockerBuild
      [] goal = G_dockerPushNative  -> M_dockerPushNative
      [] OTHER                      -> goal

\* The switch of terminalMavenCommandFor.
MavenCommand(goal) ==
    CASE goal = G_build             -> M_compile
      [] goal = G_nativeImage       -> M_nativeImage
      [] goal = G_dockerBuild       -> M_dockerBuild
      [] goal = G_dockerBuildNative -> M_dockerBuildNative
      [] goal = G_dockerPush        -> M_dockerPush
      [] goal = G_dockerPushNative  -> M_dockerPushNative
      [] OTHER                      -> goal

terminalMavenCommandFor(wrapper, goal) ==
    LET exec    == EscapeWhitespace(wrapper)
        command == MavenCommand(goal)
    IN  IF Truthy(exec) /\ Truthy(command)
        THEN exec \o <<" ">> \o command
        ELSE Undefined

(***************************************************************************)
(* State.                                                                  *)
(***************************************************************************)
VARIABLES
    \* Catalog specification: a Gradle task report and the catalog made of it.
    cTool,      \* the wrapper buildWrapper finds: "gradle", "maven" or "none"
    cKinds,     \* the report, as the kinds of its lines
    cOut,       \* the report text, the output of `gradlew tasks`
    cGoals,     \* << >> before builderInit, then <<catalog>>
    \* Command specification: one call of a terminal...CommandFor function.
    sTool,      \* "gradle" or "maven"
    sWrapper,   \* wrapper.fsPath
    sGoal,      \* the goal argument
    sCommand,   \* the function's result
    sDone,      \* whether the function has been called
    \* Build specification: builderInit and overlapping build() invocations.
    ws,         \* the workspace, as findFiles answers: the wrappers of each kind
    java,       \* the Java installation: getJavaHome() and its executables
    goals,      \* the module's `goals`: << >> while undefined, then <<Goals>>
    initPc,     \* builderInit: "findGradle", "findMaven", "done" or "failed"
    initVia,    \* the handler builderInit's buildWrapper invoked
    terminals,  \* vscode.window.terminals
    build       \* the activation of each build() invocation

catalogVars == <<cTool, cKinds, cOut, cGoals>>
commandVars == <<sTool, sWrapper, sGoal, sCommand, sDone>>
buildVars == <<ws, java, goals, initPc, initVia, terminals, build>>
vars == <<catalogVars, commandVars, buildVars>>

\* All sequences over S of length at most n.
SeqsUpTo(S, n) == UNION {[1..k -> S] : k \in 0..n}

(***************************************************************************)
(* Catalog specification: builderInit's result for a wrapper and a report. *)
(***************************************************************************)
LineKinds ==
    {"build", "upload", "divider", "blank", "jar", "jarAgain", "dockerPush"}

LineText(kind) ==
    CASE kind = "build"   -> BUILD_TASKS
      [] kind = "upload"  -> UPLOAD_TASKS
      [] kind = "divider" -> L_divider
      [] kind = "blank"   -> << >>
      [] kind = "jar"     -> L_jar
      [] kind = "jarAgain" -> L_jarAgain
      [] kind = "dockerPush" -> L_dockerPush

\* The text of a report given by the kinds of its lines.
ReportLines(kinds) == [i \in 1..Len(kinds) |-> LineText(kinds[i])]

\* The lines joined by newlines, as execFileSync returns them.
RECURSIVE JoinLines(_)
JoinLines(lines) ==
    IF lines = << >> THEN << >>
    ELSE IF Len(lines) = 1 THEN Head(lines)
    ELSE Head(lines) \o <<"\n">> \o JoinLines(Tail(lines))

\* A faulty fallback: the Maven goals instead of no goals.
EmptyGoals_Maven == getAvailableMavenGoals

\* builderInit's `|| { build: [], deploy: [] }`.
EmptyGoals == [build |-> << >>, deploy |-> << >>]

InitCatalog ==
    /\ cTool \in {"gradle", "maven", "none"}
    /\ cKinds \in (IF cTool = "gradle" THEN SeqsUpTo(LineKinds, MaxLines) ELSE {<< >>})
    /\ cOut = JoinLines(ReportLines(cKinds))
    /\ cGoals = << >>

\* A build() activation that has not been called.
IdleBuild ==
    [pc |-> "idle", noGoal |-> FALSE, goal |-> Undefined, items |-> << >>,
     javaHome |-> Undefined, selected |-> Undefined, via |-> "none",
     command |-> Undefined, thrown |-> << >>, host |-> << >>, eff |-> << >>]

InitBuildIdle ==
    /\ ws = [gradle |-> << >>, maven |-> << >>]
    /\ java = [home |-> Undefined, nativeImage |-> FALSE, gu |-> FALSE]
    /\ goals = << >>
    /\ initPc = "done"
    /\ initVia = "none"
    /\ terminals = << >>
    /\ build = [p \in 1..NumBuilds |-> [IdleBuild EXCEPT !.pc = "done"]]

InitCommandIdle ==
    /\ sTool = "gradle"
    /\ sWrapper = << >>
    /\ sGoal = << >>
    /\ sCommand = << >>
    /\ sDone = TRUE

\* builderInit with the wrapper lookup resolved to cTool.
PopulateCatalog ==
    /\ cGoals = << >>
    /\ cGoals' = <<CASE cTool = "gradle" -> getAvailableGradleGoals(cOut)
                     [] cTool = "maven"  -> getAvailableMavenGoals
                     [] OTHER            -> EmptyGoals>>
    /\ UNCHANGED <<cTool, cKinds, cOut, commandVars, buildVars>>

CatalogInit == InitCatalog /\ InitCommandIdle /\ InitBuildIdle

SpecCatalog == CatalogInit /\ [][PopulateCatalog]_vars

(***************************************************************************)
(* Command specification: terminalGradleCommandFor and                     *)
(* terminalMavenCommandFor on a wrapper path and a goal.                   *)
(***************************************************************************)
PathChars == {"a", " ", "\t"}

CommandGoals ==
    {G_build, G_nativeImage, G_dockerBuild, G_dockerBuildNative, G_dockerPush,
     G_dockerPushNative, G_clean, G_package}

WrapperName(tool) == IF tool = "gradle" THEN F_gradlew ELSE F_mvnw

InitCatalogIdle ==
    /\ cTool = "none"
    /\ cKinds = << >>
    /\ cOut = << >>
    /\ cGoals = <<EmptyGoals>>

InitCommand ==
    /\ sTool \in {"gradle", "maven"}
    /\ \E dir \in SeqsUpTo(PathChars, MaxDirLen) :
           sWrapper = <<"/">> \o dir \o <<"/">> \o WrapperName(sTool)
    /\ sGoal \in CommandGoals
    /\ sCommand = << >>
    /\ sDone = FALSE

SynthGradle ==
    /\ ~sDone
    /\ sTool = "gradle"
    /\ sCommand' = terminalGradleCommandFor(sWrapper, sGoal)
    /\ sDone' = TRUE
    /\ UNCHANGED <<sTool, sWrapper, sGoal, catalogVars, buildVars>>

SynthMaven ==
    /\ ~sDone
    /\ sTool = "maven"
    /\ sCommand' = terminalMavenCommandFor(sWrapper, sGoal)
    /\ sDone' = TRUE
    /\ UNCHANGED <<sTool, sWrapper, sGoal, catalogVars, buildVars>>

CommandInit == InitCommand /\ InitCatalogIdle /\ InitBuildIdle

CommandNext == SynthGradle \/ SynthMaven

SpecCommand == CommandInit /\ [][CommandNext]_vars


(***************************************************************************)
(* Build specification: builderInit at start-up and NumBuilds overlapping  *)
(* build() invocations, each an async function that runs from one await to *)
(* the next without interruption.  The workspace and the Java installation *)
(* are inputs fixed at start-up; the outcome of the Gradle run, the        *)
(* arguments of build() and the user's answers are inputs of the steps.    *)
(***************************************************************************)
Builds == 1..NumBuilds

\* The wrappers the two findFiles searches can return.
Workspaces ==
    {[gradle |-> g, maven |-> m] : g \in {<< >>, <<GRADLEW>>}, m \in {<< >>, <<MVNW>>}}

\* The task report of the project's Gradle wrapper.
TASK_REPORT ==
    JoinLines(<<BUILD_TASKS, L_divider, R_build1, R_build2, << >>,
                UPLOAD_TASKS, L_divider, R_upload1, << >>, << >>>>)

\* The goal and group arguments build() is called with ("" for no group).
GoalArgs == {Undefined, G_nativeImage, G_clean}
GroupArgs == {"", "build", "deploy"}

\* The Java installations: what getJavaHome() returns and whether
\* findExecutable finds native-image and gu in it.
JavaInstallations ==
    {[home |-> Undefined, nativeImage |-> FALSE, gu |-> FALSE]}
    \cup {[home |-> JAVA_HOME, nativeImage |-> n, gu |-> g] :
              n \in BOOLEAN, g \in BOOLEAN}

\* A faulty line 78: the Gradle wrapper is used only when there is no Maven one.
GradleBranch_MavenFirst(wrapper) == Len(wrapper) > 0 /\ Len(ws.maven) = 0

\* buildWrapper, line 78: `gradle && wrapper && wrapper.length > 0`.
GradleBranch(wrapper) == Len(wrapper) > 0

\* buildWrapper, line 82: `maven && wrapper && wrapper.length > 0`.
MavenBranch(wrapper) == Len(wrapper) > 0

\* A faulty line 85: a default command instead of undefined.
NotFoundResult_Default == G_build

\* buildWrapper, line 85: the result when neither wrapper is found.
NotFoundResult == Undefined

\* A faulty line 71: nothing is thrown.
NoCommandError_Silent(g) == << >>

\* build, line 71: the error thrown for a missing command.
NoCommandError(g) == NO_COMMAND \o g

\* A faulty line 47: the answer is never taken for the install action.
InstallChosen_Never(selected) == FALSE

\* build, line 47: whether the user chose the install action.
InstallChosen(selected) == selected = INSTALL

\* build, line 41: the goals that need native-image.
NeedsNativeImage(g) == g = G_nativeImage \/ g = G_dockerBuildNative

\* build() returns or throws: its locals are gone, what it did remains.
Return(r) ==
    [r EXCEPT !.pc = "done", !.goal = Undefined, !.items = << >>,
              !.javaHome = Undefined, !.selected = Undefined, !.command = Undefined]

\* build, lines 39-56: from the resolved goal to the next await.
AfterGoal(r) ==
    IF ~Truthy(r.goal)
    THEN Return(r)
    ELSE LET r1 == [r EXCEPT !.javaHome = java.home]
         IN  IF Truthy(java.home) /\ NeedsNativeImage(r.goal) /\ ~java.nativeImage
             THEN IF java.gu
                  THEN [r1 EXCEPT !.pc = "prompt",
                                  !.host = Append(@, "showInformationMessage")]
                  ELSE [r1 EXCEPT !.pc = "findGradle",
                                  !.host = Append(@, "showWarningMessage")]
             ELSE [r1 EXCEPT !.pc = "findGradle"]

\* build, lines 26-38: from the call to the first await.
BeginBuild(r, g, grp) ==
    LET r0 == [r EXCEPT !.noGoal = ~Truthy(g), !.goal = g]
    IN  IF goals = << >>
        THEN Return([r0 EXCEPT !.thrown = TYPE_ERROR])
        ELSE LET group == IF grp = "" THEN "build" ELSE grp
                 its   == goals[1][group]
             IN  IF ~Truthy(g)
                 THEN IF Len(its) = 0
                      THEN AfterGoal([r0 EXCEPT !.goal = G_build])
                      ELSE [r0 EXCEPT !.pc = "pick", !.items = its,
                                      !.host = IF Len(its) > 1
                                               THEN Append(@, "showQuickPick")
                                               ELSE @]
                 ELSE AfterGoal(r0)

\* vscode.window.terminals.find(terminal => terminal.name === MICRONAUT):
\* the index of the first such terminal, 0 for undefined.
FindTerminal(ts) ==
    IF \E i \in 1..Len(ts) : ts[i].name = MICRONAUT
    THEN CHOOSE i \in 1..Len(ts) :
             ts[i].name = MICRONAUT /\ \A j \in 1..(i - 1) : ts[j].name # MICRONAUT
    ELSE 0

\* A faulty dispose: the terminal stays.
Dispose_Keeps(ts, i) == ts

\* terminal.dispose(): the terminal leaves vscode.window.terminals.
Dispose(ts, i) == SubSeq(ts, 1, i - 1) \o SubSeq(ts, i + 1, Len(ts))

\* build, lines 62-66: the environment of the new terminal.
TerminalEnv(jh) ==
    IF Truthy(jh)
    THEN <<<<"JAVA_HOME", jh>>, <<"PATH", jh \o BIN \o <<":">> \o ENV_PATH>>>>
    ELSE << >>

\* build, lines 58-69: the terminals after invocation p has run `command`.
RunInTerminal(ts, p, jh, cmd) ==
    LET found == FindTerminal(ts)
        kept  == IF found # 0 THEN Dispose(ts, found) ELSE ts
    IN  Append(kept, [name |-> MICRONAUT, creator |-> p, env |-> TerminalEnv(jh),
                      shown |-> TRUE, sent |-> <<[by |-> p, text |-> cmd]>>])

\* The terminal calls of lines 58-69, in order, each with the creator of its
\* terminal.
TerminalCalls(ts, p) ==
    LET found == FindTerminal(ts)
    IN  (IF found # 0 THEN <<<<"dispose", ts[found].creator>>>> ELSE << >>)
        \o <<<<"create", p>>, <<"show", p>>, <<"sendText", p>>>>

InitBuild ==
    /\ ws \in Workspaces
    /\ java \in JavaInstallations
    /\ goals = << >>
    /\ initPc = "findGradle"
    /\ initVia = "none"
    /\ terminals \in
         {<< >>,
          <<[name |-> OTHER_NAME, creator |-> 0, env |-> << >>, shown |-> TRUE,
             sent |-> << >>],
            [name |-> MICRONAUT, creator |-> 0, env |-> << >>, shown |-> TRUE,
             sent |-> << >>]>>}
    /\ build = [p \in Builds |-> IdleBuild]

Init == InitBuild /\ InitCatalogIdle /\ InitCommandIdle

\* builderInit resumes from buildWrapper's search for a Gradle wrapper; the
\* Gradle handler runs `gradlew tasks`, which prints the report or fails.
InitFindGradle ==
    /\ initPc = "findGradle"
    /\ IF GradleBranch(ws.gradle)
       THEN /\ initVia' = "gradle"
            /\ \/ /\ goals' = <<getAvailableGradleGoals(TASK_REPORT)>>
                  /\ initPc' = "done"
               \/ /\ goals' = goals
                  /\ initPc' = "failed"
       ELSE /\ initPc' = "findMaven"
            /\ UNCHANGED <<goals, initVia>>
    /\ UNCHANGED <<ws, java, terminals, build, catalogVars, commandVars>>

\* builderInit resumes from buildWrapper's search for a Maven wrapper.
InitFindMaven ==
    /\ initPc = "findMaven"
    /\ IF MavenBranch(ws.maven)
       THEN /\ initVia' = "maven"
            /\ goals' = <<getAvailableMavenGoals>>
       ELSE /\ initVia' = "notfound"
            /\ goals' = <<EmptyGoals>>
    /\ initPc' = "done"
    /\ UNCHANGED <<ws, java, terminals, build, catalogVars, commandVars>>

\* build(goal, group) is called and runs to its first await.
Call(p) ==
    /\ build[p].pc = "idle"
    /\ \E g \in GoalArgs, grp \in GroupArgs :
           build' = [build EXCEPT ![p] = BeginBuild(@, g, grp)]
    /\ UNCHANGED <<ws, java, goals, initPc, initVia, terminals, catalogVars, commandVars>>

\* The goal picker answers (with one item there is no picker: the item is
\* taken); build() runs on to its next await.
Pick(p) ==
    /\ build[p].pc = "pick"
    /\ \E i \in 0..Len(build[p].items) :
           /\ i = 0 => Len(build[p].items) > 1
           /\ build' = [build EXCEPT ![p] =
                  AfterGoal([@ EXCEPT !.goal = IF i # 0 THEN build[p].items[i].label ELSE @,
                                      !.items = << >>])]
    /\ UNCHANGED <<ws, java, goals, initPc, initVia, terminals, catalogVars, commandVars>>

\* The user answers the offer to install native-image.
Prompt(p) ==
    /\ build[p].pc = "prompt"
    /\ \E selected \in {INSTALL, Undefined} :
           build' = [build EXCEPT ![p] =
                  IF InstallChosen(selected)
                  THEN [@ EXCEPT !.selected = selected, !.pc = "install",
                                 !.host = Append(@, "executeCommand")]
                  ELSE [@ EXCEPT !.selected = selected, !.pc = "findGradle"]]
    /\ UNCHANGED <<ws, java, goals, initPc, initVia, terminals, catalogVars, commandVars>>

\* The install command completes and build() returns.
InstallReturn(p) ==
    /\ build[p].pc = "install"
    /\ build' = [build EXCEPT ![p] = Return(@)]
    /\ UNCHANGED <<ws, java, goals, initPc, initVia, terminals, catalogVars, commandVars>>

\* terminalCommandFor's buildWrapper resumes from its search for a Gradle wrapper.
FindGradle(p) ==
    /\ build[p].pc = "findGradle"
    /\ build' = [build EXCEPT ![p] =
           IF GradleBranch(ws.gradle)
           THEN [@ EXCEPT !.via = "gradle", !.pc = "run",
                          !.command = terminalGradleCommandFor(ws.gradle[1], build[p].goal)]
           ELSE [@ EXCEPT !.pc = "findMaven"]]
    /\ UNCHANGED <<ws, java, goals, initPc, initVia, terminals, catalogVars, commandVars>>

\* terminalCommandFor's buildWrapper resumes from its search for a Maven wrapper.
FindMaven(p) ==
    /\ build[p].pc = "findMaven"
    /\ build' = [build EXCEPT ![p] =
           IF MavenBranch(ws.maven)
           THEN [@ EXCEPT !.via = "maven", !.pc = "run",
                          !.command = terminalMavenCommandFor(ws.maven[1], build[p].goal)]
           ELSE [@ EXCEPT !.via = "notfound", !.pc = "run",
                          !.command = NotFoundResult]]
    /\ UNCHANGED <<ws, java, goals, initPc, initVia, terminals, catalogVars, commandVars>>

\* build() resumes from `await terminalCommandFor(goal)`: lines 57-72.
Run(p) ==
    /\ build[p].pc = "run"
    /\ IF Truthy(build[p].command)
       THEN /\ terminals' = RunInTerminal(terminals, p, build[p].javaHome,
                                          build[p].command)
            /\ build' = [build EXCEPT ![p] =
                   Return([@ EXCEPT !.eff = TerminalCalls(terminals, p)])]
       ELSE /\ build' = [build EXCEPT ![p] =
                   Return([@ EXCEPT !.thrown = NoCommandError(build[p].goal)])]
            /\ UNCHANGED terminals
    /\ UNCHANGED <<ws, java, goals, initPc, initVia, catalogVars, commandVars>>

Next ==
    \/ InitFindGradle
    \/ InitFindMaven
    \/ \E p \in Builds :
           \/ Call(p)
           \/ Pick(p)
           \/ Prompt(p)
           \/ InstallReturn(p)
           \/ FindGradle(p)
           \/ FindMaven(p)
           \/ Run(p)

Spec == Init /\ [][Next]_vars


(***************************************************************************)
(* Properties.  The values the properties expect are written out here,     *)
(* independently of the operators above.                                   *)
(***************************************************************************)
\* 'jar'
E_jar ==
    <<"j","a","r">>

\* 'Assembles a jar'
E_jarDetail ==
    <<"A","s","s","e","m","b","l","e","s"," ","a"," ","j","a","r">>

\* 'Makes it again'
E_jarAgainDetail ==
    <<"M","a","k","e","s"," ","i","t"," ","a","g","a","i","n">>

\* 'docker-push'
E_dockerPush ==
    <<"d","o","c","k","e","r","-","p","u","s","h">>

\* 'Pushes - fast'
E_dockerPushDetail ==
    <<"P","u","s","h","e","s"," ","-"," ","f","a","s","t">>

\* '/my\ app/gradlew'
E_GRADLEW ==
    <<"/","m","y","\\"," ","a","p","p","/","g","r","a","d","l","e","w">>

\* The set of the elements of a sequence.
Range(s) == {s[i] : i \in 1..Len(s)}

\* String.prototype.endsWith
EndsWith(s, suffix) ==
    Len(s) >= Len(suffix) /\ SubSeq(s, Len(s) - Len(suffix) + 1, Len(s)) = suffix

---------------------------------------------------------------------------
(* Properties of the catalog (SpecCatalog).                                *)

TaskKinds == {"jar", "jarAgain", "dockerPush"}

\* The goal a task line of each kind stands for.
ExpectedGoal(kind) ==
    CASE kind = "jar"        -> [label |-> E_jar, detail |-> E_jarDetail]
      [] kind = "jarAgain"   -> [label |-> E_jar, detail |-> E_jarAgainDetail]
      [] kind = "dockerPush" -> [label |-> E_dockerPush, detail |-> E_dockerPushDetail]

\* The catalog sequence the section of a header goes to.
CatalogOf(catalog, header) ==
    IF header = "build" THEN catalog.build ELSE catalog.deploy

Positions(kinds, kind) == {i \in 1..Len(kinds) : kinds[i] = kind}

\* The position of the first line of `kind` after position i (Len + 1 if none).
NextOf(kinds, kind, i) ==
    LET later == {j \in (i + 1)..Len(kinds) : kinds[j] = kind}
    IN  IF later = {} THEN Len(kinds) + 1
        ELSE CHOOSE j \in later : \A o \in later : j <= o

\* The position of the header line, when there is exactly one.
HeaderAt(kinds, header) == CHOOSE i \in Positions(kinds, header) : TRUE

\* The position of the first task line of the section: after the header and
\* its optional divider.
FirstTaskAt(kinds, header) ==
    LET h == HeaderAt(kinds, header)
    IN  IF h < Len(kinds) /\ kinds[h + 1] = "divider" THEN h + 2 ELSE h + 1

\* The header occurs once and starts a well-formed section: an optional
\* divider, task lines only, then a blank line.
WellFormedSection(kinds, header) ==
    /\ Cardinality(Positions(kinds, header)) = 1
    /\ LET first == FirstTaskAt(kinds, header)
           blank == NextOf(kinds, "blank", first - 1)
       IN  /\ blank <= Len(kinds)
           /\ \A i \in first..(blank - 1) : kinds[i] \in TaskKinds

\* The task lines of a well-formed section, in order.
SectionTasks(kinds, header) ==
    LET first == FirstTaskAt(kinds, header)
        blank == NextOf(kinds, "blank", first - 1)
    IN  SubSeq(kinds, first, blank - 1)

\* The goals of the task lines of a well-formed section, in order.
ExpectedGoals(kinds, header) ==
    LET tasks == SectionTasks(kinds, header)
    IN  [i \in 1..Len(tasks) |-> ExpectedGoal(tasks[i])]

\* C1: for a report in which the header line starts a well-formed section,
\* parseAvailableGradleGoals returns exactly the (token, description) pairs of
\* the section's task lines, in order, and nothing from any other line.
C1_WellFormedSectionParsed ==
    (cTool = "gradle" /\ cGoals # << >>) =>
        \A header \in {"build", "upload"} :
            WellFormedSection(cKinds, header) =>
                CatalogOf(cGoals[1], header) = ExpectedGoals(cKinds, header)

\* C1 witness: a parsed report with a well-formed "Build tasks" section that
\* holds a task, and a task line outside that section.
C1_Witness ==
    /\ cTool = "gradle" /\ cGoals # << >>
    /\ WellFormedSection(cKinds, "build")
    /\ Len(SectionTasks(cKinds, "build")) >= 1
    /\ Len(cGoals[1].build) >= 1
    /\ \E i \in 1..Len(cKinds) :
           /\ cKinds[i] \in TaskKinds
           /\ i < HeaderAt(cKinds, "build")
           /\ Positions(cKinds, "upload") # {}

NoLabelTwice(items) ==
    \A i, j \in 1..Len(items) : items[i].label = items[j].label => i = j

\* C8 as stated: no goal identifier appears twice within the build sequence
\* or within the deploy sequence, for the Maven catalog and for the Gradle
\* catalog of any report.
C8_NoGoalTwice ==
    cGoals # << >> =>
        NoLabelTwice(cGoals[1].build) /\ NoLabelTwice(cGoals[1].deploy)

\* The header occurs at most once, and no two task lines between it and the
\* next blank line (or the end of the report) name the same task.
DistinctTasksSection(kinds, header) ==
    /\ Cardinality(Positions(kinds, header)) <= 1
    /\ Positions(kinds, header) # {} =>
           LET h     == HeaderAt(kinds, header)
               blank == NextOf(kinds, "blank", h)
           IN  \A i, j \in (h + 1)..(blank - 1) :
                   (/\ kinds[i] \in TaskKinds
                    /\ kinds[j] \in TaskKinds
                    /\ ExpectedGoal(kinds[i]).label = ExpectedGoal(kinds[j]).label)
                   => i = j

\* C8, amended: no goal identifier appears twice within a sequence of the
\* Maven catalog, of the empty catalog, or of the Gradle catalog of a report
\* in which the section's header occurs at most once and no two task lines of
\* the section name the same task.
C8_NoGoalTwiceInCleanReport ==
    cGoals # << >> =>
        \A header \in {"build", "upload"} :
            (cTool = "gradle" => DistinctTasksSection(cKinds, header))
                => NoLabelTwice(CatalogOf(cGoals[1], header))

\* C8 witness: a Gradle catalog with two distinct goals from such a report.
C8_Witness ==
    /\ cTool = "gradle" /\ cGoals # << >>
    /\ DistinctTasksSection(cKinds, "build")
    /\ Len(cGoals[1].build) >= 2

---------------------------------------------------------------------------
(* Properties of command synthesis (SpecCommand).                          *)

\* The translation table of the Maven goals.
ExpectedMaven(g) ==
    IF g = G_build THEN M_compile
    ELSE IF g = G_nativeImage THEN M_nativeImage
    ELSE IF g = G_dockerBuild THEN M_dockerBuild
    ELSE IF g = G_dockerBuildNative THEN M_dockerBuildNative
    ELSE IF g = G_dockerPush THEN M_dockerPush
    ELSE IF g = G_dockerPushNative THEN M_dockerPushNative
    ELSE g

\* C2: terminalMavenCommandFor returns the escaped wrapper path, a space and
\* the translated goal; a goal outside the table is passed through unchanged.
C2_MavenTranslation ==
    (sDone /\ sTool = "maven") =>
        sCommand = EscapeWhitespace(sWrapper) \o <<" ">> \o ExpectedMaven(sGoal)

\* C2 witness: 'nativeImage' translated for a wrapper path with a space.
C2_Witness ==
    /\ sDone /\ sTool = "maven"
    /\ sGoal = G_nativeImage
    /\ " " \in Range(sWrapper)
    /\ EndsWith(sCommand, <<" ">> \o M_nativeImage)

\* The part of the command before the space that separates the goal.
ExecOf(cmd, tool, g) ==
    LET tail == IF tool = "gradle" THEN g \o NO_DAEMON ELSE ExpectedMaven(g)
    IN  SubSeq(cmd, 1, Len(cmd) - Len(tail) - 1)

IsPathChar(c) == ~IsSpace(c) /\ c # "\\"

\* C9 as stated: in the synthesized command every whitespace character of
\* the wrapper path is prefixed with a backslash, and the other characters of
\* the path are kept unchanged and in order.
C9_EverySpaceEscaped ==
    sDone =>
        LET exec == ExecOf(sCommand, sTool, sGoal)
        IN  /\ \A i \in 1..Len(exec) :
                   IsSpace(exec[i]) => (i > 1 /\ exec[i - 1] = "\\")
            /\ SelectSeq(exec, IsPathChar) = SelectSeq(sWrapper, IsPathChar)

---------------------------------------------------------------------------
(* Properties of build() (Spec).                                           *)

BothWrappers == ws.gradle # << >> /\ ws.maven # << >>
NoWrapper == ws.gradle = << >> /\ ws.maven = << >>

\* The terminals invocation p created that still exist.
TerminalsOf(p) == {i \in 1..Len(terminals) : terminals[i].creator = p}

\* No terminal was disposed, created, shown or written to by invocation p.
NoTerminalEffect(p) == build[p].eff = << >> /\ TerminalsOf(p) = {}

\* C3: with both wrappers in the workspace, builderInit and terminalCommandFor
\* invoke the Gradle handler only and the command has the Gradle form; the
\* Maven handler is invoked only when no Gradle wrapper is found and a Maven
\* wrapper is found.
C3_GradleTakesPriority ==
    /\ (BothWrappers /\ initPc \in {"done", "failed"}) => initVia = "gradle"
    /\ BothWrappers => initPc # "findMaven"
    /\ initVia = "maven" => (ws.gradle = << >> /\ ws.maven # << >>)
    /\ \A p \in Builds :
           /\ BothWrappers =>
                  /\ build[p].pc # "findMaven"
                  /\ build[p].via \in {"none", "gradle"}
                  /\ build[p].pc = "run" =>
                         /\ build[p].via = "gradle"
                         /\ build[p].command
                                = E_GRADLEW \o <<" ">> \o build[p].goal \o NO_DAEMON
                  /\ \A i \in TerminalsOf(p) :
                         /\ Len(terminals[i].sent) = 1
                         /\ StartsWith(terminals[i].sent[1].text, E_GRADLEW \o <<" ">>)
                         /\ EndsWith(terminals[i].sent[1].text, NO_DAEMON)
           /\ build[p].via = "maven" => (ws.gradle = << >> /\ ws.maven # << >>)

\* C3 witness: both wrappers, the catalog populated by the Gradle handler, and
\* a build whose Gradle command went to its terminal.
C3_Witness ==
    /\ BothWrappers
    /\ initVia = "gradle" /\ initPc = "done"
    /\ \E p \in Builds :
           /\ build[p].pc = "done" /\ build[p].via = "gradle"
           /\ TerminalsOf(p) # {}

\* While terminalCommandFor's result is awaited or after build() has ended.
C4_NoWrapperState ==
    \A p \in Builds :
        build[p].via = "notfound" =>
            /\ build[p].pc \in {"run", "done"}
            /\ build[p].pc = "run" => build[p].command = Undefined
            /\ build[p].pc = "done" =>
                   /\ StartsWith(build[p].thrown, NO_COMMAND)
                   /\ Len(build[p].thrown) > Len(NO_COMMAND)
            /\ NoTerminalEffect(p)

\* The step in which build() resumes with no command.
C4_NoWrapperStep ==
    \A p \in Builds :
        (build[p].via = "notfound" /\ build[p].pc = "run" /\ build'[p].pc # "run") =>
            /\ build'[p].pc = "done"
            /\ build'[p].thrown = NO_COMMAND \o build[p].goal
            /\ terminals' = terminals

\* C4: when no wrapper is located at synthesis time, terminalCommandFor yields
\* no command whatever the goal, build() ends by raising 'No terminal command
\* for <goal>', and the terminals are left as they were.
C4_NoWrapperRaises == []C4_NoWrapperState /\ [][C4_NoWrapperStep]_vars

\* C4 witness: a build that found no wrapper and has raised the error.
C4_Witness ==
    \E p \in Builds :
        /\ build[p].pc = "done" /\ build[p].via = "notfound"
        /\ build[p].thrown = NO_COMMAND \o G_nativeImage

\* build() has ended because the user dismissed the goal picker.
Dismissed(p) ==
    /\ build[p].pc = "done"
    /\ build[p].noGoal
    /\ build[p].host = <<"showQuickPick">>
    /\ build[p].via = "none"

\* C5 as stated: when no wrapper is found and when no goal is selected,
\* build() ends silently: no error, no terminal disposed, created or written.
C5_NotFoundIsSilent ==
    \A p \in Builds :
        (build[p].pc = "done" /\ (build[p].via = "notfound" \/ Dismissed(p))) =>
            /\ build[p].thrown = << >>
            /\ NoTerminalEffect(p)

\* C5, amended: when no goal is selected build() ends silently, with no error
\* and no terminal effect; when no wrapper is found build() ends with the
\* error 'No terminal command for <goal>', still with no terminal effect.
C5_NoGoalSilentNoWrapperRaises ==
    \A p \in Builds :
        /\ Dismissed(p) =>
               /\ build[p].thrown = << >>
               /\ NoTerminalEffect(p)
        /\ (build[p].pc = "done" /\ build[p].via = "notfound") =>
               /\ StartsWith(build[p].thrown, NO_COMMAND)
               /\ NoTerminalEffect(p)

\* C5 witness: a build ended by the dismissal of the goal picker.
C5_Witness ==
    \E p \in Builds : Dismissed(p) /\ build[p].thrown = << >>

Offered(p) == "showInformationMessage" \in Range(build[p].host)
Installing(p) == "executeCommand" \in Range(build[p].host)

\* C6 as stated: once the install action has been offered, the build request
\* is aborted whatever the user answers: no command is synthesized and no
\* terminal is disposed, created or written to.
C6_OfferAbortsBuild ==
    \A p \in Builds :
        Offered(p) =>
            /\ build[p].pc \in {"prompt", "install", "done"}
            /\ build[p].via = "none"
            /\ NoTerminalEffect(p)

\* C6, amended: the install action is offered for a native-image goal with a
\* Java home, no native-image and a gu; when the user chooses it, the
\* installer is run and the build request is aborted, with no command
\* synthesized and no terminal effect; when the user dismisses the offer,
\* build() goes on to synthesize the command.
C6_InstallAbortsDismissProceeds ==
    \A p \in Builds :
        /\ Offered(p) =>
               (Truthy(java.home) /\ ~java.nativeImage /\ java.gu)
        /\ build[p].pc = "prompt" =>
               (Offered(p) /\ NeedsNativeImage(build[p].goal))
        /\ build[p].selected = INSTALL =>
               (build[p].pc = "install" /\ Installing(p))
        /\ Installing(p) =>
               /\ build[p].pc \in {"install", "done"}
               /\ build[p].via = "none"
               /\ build[p].thrown = << >>
               /\ NoTerminalEffect(p)
        /\ (Offered(p) /\ ~Installing(p) /\ build[p].pc = "done") =>
               build[p].via # "none"

\* C6 witness: a build aborted after the user chose the install action.
C6_Witness ==
    \E p \in Builds :
        /\ build[p].pc = "done"
        /\ Offered(p) /\ Installing(p)
        /\ build[p].via = "none"

MicronautTerminals == {i \in 1..Len(terminals) : terminals[i].name = MICRONAUT}

\* C7: at most one terminal named 'Micronaut' exists at any time; a build that
\* has a command disposes the existing one before it creates its own, and a
\* terminal only ever receives the command of the build that created it.
C7_SingleMicronautTerminal ==
    /\ Cardinality(MicronautTerminals) <= 1
    /\ \A i \in 1..Len(terminals) :
           \A k \in 1..Len(terminals[i].sent) :
               terminals[i].sent[k].by = terminals[i].creator
    /\ \A p \in Builds :
           /\ TerminalsOf(p) # {} => build[p].eff # << >>
           /\ build[p].eff # << >> =>
                  LET calls  == build[p].eff
                      create == <<<<"create", p>>, <<"show", p>>, <<"sendText", p>>>>
                  IN  \/ calls = create
                      \/ /\ Len(calls) = 4
                         /\ calls[1][1] = "dispose"
                         /\ calls[1][2] # p
                         /\ SubSeq(calls, 2, 4) = create

\* C7 witness: two builds have run; the second disposed the first's terminal
\* and its own is the only 'Micronaut' terminal.
C7_Witness ==
    \E p, q \in Builds :
        /\ p # q
        /\ build[p].pc = "done" /\ build[q].pc = "done"
        /\ build[p].eff # << >>
        /\ build[q].eff # << >>
        /\ build[q].eff[1] = <<"dispose", p>>
        /\ MicronautTerminals # {}
        /\ \A i \in MicronautTerminals : terminals[i].creator = q

\* C10: when builderInit finds no wrapper the catalog is {build: [], deploy:
\* []}, and a later build() without a goal takes the goal 'build' without
\* showing the goal picker.
C10_NoWrapperDefaultsToBuild ==
    initVia = "notfound" =>
        /\ goals = <<[build |-> << >>, deploy |-> << >>]>>
        /\ \A p \in Builds :
               (build[p].noGoal /\ build[p].pc # "idle" /\ build[p].thrown # TYPE_ERROR) =>
                   /\ build[p].pc # "pick"
                   /\ "showQuickPick" \notin Range(build[p].host)
                   /\ build[p].pc # "done" => build[p].goal = G_build
                   /\ (build[p].pc = "done" /\ build[p].thrown # << >>) =>
                          build[p].thrown = NO_COMMAND \o G_build

\* C10 witness: no wrapper at builderInit, then a build() without a goal that
\* is looking for the wrapper of goal 'build'.
C10_Witness ==
    /\ initVia = "notfound"
    /\ \E p \in Builds :
           /\ build[p].noGoal
           /\ build[p].pc = "findGradle"
           /\ build[p].goal = G_build

=============================================================================
